---- MODULE Spec2Model ----
(***************************************************************************)
(* Model of src/static/service-worker.js, the worker script as it stands:  *)
(* one script that registers two install listeners, two activate listeners *)
(* and two fetch listeners (lines 9-122 and lines 129-230).  Every event   *)
(* is dispatched to both listeners of its kind, in registration order.     *)
(*                                                                         *)
(* CacheStorage, the network and the clients are the environment.  The     *)
(* network answers a fetch with an ok response, a non-ok response or a     *)
(* rejection.  During install and activation the Cache API may reject;     *)
(* inside fetch handlers the Cache API is taken to succeed.                *)
(*                                                                         *)
(* Specifications:                                                         *)
(*   Spec      the fetch events of an activated instance, one at a time    *)
(*   SpecLife  install and activation of successive instances              *)
(*   SpecPage  the fetch events for /health and /version, with upstream    *)
(*             bodies of every shape (the pages the worker renders)        *)
(*   SpecRace  fetch events for one static key in flight together          *)
(*   SpecMixed fetch events while a new instance installs and activates    *)
(*   SpecOff   install, activation and messages of the self-unregistering *)
(*             worker of src/unnamed/part_002                              *)
(***************************************************************************)
EXTENDS Naturals, Sequences, FiniteSets, TLC

\* ---------------------------------------------------------------- bounds
\* fetch events whose handlers may be in flight at the same time
MaxInFlight == 1

\* length of the upstream bodies that are enumerated character by character
MaxBodyLen == 2

\* ------------------------------------------------------- script constants
\* JavaScript null (URLSearchParams.get of an absent parameter)
Null == "null"

\* the ?v= parameter the script may be registered with
RegParams == {"5", "6"}

\* line 129: new URL(self.location).searchParams.get("v") || "2025-11-01"
VER(param) == IF param = Null \/ param = "" THEN "2025-11-01" ELSE param

\* line 130: `v-${VER}`
CACHE_VERSION(ver) == <<"v-", ver>>

\* line 131
ASSET_VERSION(ver) == ver

\* line 132: `app-static-${CACHE_VERSION}`
STATIC_CACHE(ver) == <<"app-static-">> \o CACHE_VERSION(ver)

\* paths are sequences of tokens, so that startsWith is a real prefix test
ManifestPath == <<"/", "static", "/", "manifest.json">>
Icon192Path == <<"/", "static", "/", "icons", "/", "icon-192.png">>
Icon512Path == <<"/", "static", "/", "icons", "/", "icon-512.png">>
MaskablePath == <<"/", "static", "/", "icons", "/", "maskable-512.png">>

\* lines 135-140: the precache manifest, every URL stamped with ASSET_VERSION
PRECACHE_URLS(ver) ==
  { [path |-> p, v |-> ASSET_VERSION(ver)] :
      p \in {ManifestPath, Icon192Path, Icon512Path, MaskablePath} }

\* cache generations left behind by earlier deployments
OldGenerations == {STATIC_CACHE("4"), STATIC_CACHE("5")}

\* ---------------------------------------------------------------- requests
UiPath == <<"/", "ui">>
HealthPath == <<"/", "health">>
VersionPath == <<"/", "version">>
ApiSearchPath == <<"/", "api", "/", "search">>
AppJsPath == <<"/", "static", "/", "app.js">>
FaviconPath == <<"/", "favicon", ".ico">>
RobotsPath == <<"/", "robots.txt">>

HtmlAccept == <<"text/html", "application/xhtml+xml">>
AnyAccept == <<"*/*">>

Url(p, v) == [path |-> p, v |-> v]

Req(method, mode, destination, accept, url) ==
  [method |-> method, mode |-> mode, destination |-> destination,
   accept |-> accept, url |-> url]

\* navigations: mode navigate, destination document, Accept with text/html
Navigations ==
  { Req("GET", "navigate", "document", HtmlAccept, u) :
      u \in { Url(UiPath, Null), Url(HealthPath, Null), Url(VersionPath, Null),
              Url(AppJsPath, "5"), Url(ApiSearchPath, Null) } }

\* requests that are documents by one signal only
OtherDocuments ==
  { Req("GET", "same-origin", "document", AnyAccept, Url(UiPath, Null)),
    Req("GET", "cors", "", HtmlAccept, Url(AppJsPath, "5")),
    Req("POST", "cors", "", HtmlAccept, Url(ApiSearchPath, Null)),
    Req("GET", "cors", "", HtmlAccept, Url(HealthPath, Null)) }

\* subresource requests (no document signal; the last one sends no Accept)
Subresources ==
  { Req("GET", "cors", "", AnyAccept, Url(AppJsPath, v)) : v \in {Null, "5", "6"} }
  \cup
  { Req("GET", "no-cors", "", AnyAccept, Url(FaviconPath, Null)),
    Req("POST", "cors", "", AnyAccept, Url(AppJsPath, "5")),
    Req("POST", "cors", "", AnyAccept, Url(AppJsPath, "6")),
    Req("POST", "cors", "", AnyAccept, Url(AppJsPath, Null)),
    Req("HEAD", "no-cors", "", AnyAccept, Url(FaviconPath, Null)),
    Req("POST", "cors", "", AnyAccept, Url(ApiSearchPath, Null)),
    Req("GET", "cors", "", <<>>, Url(ApiSearchPath, Null)),
    Req("GET", "cors", "", AnyAccept, Url(HealthPath, Null)),
    Req("GET", "cors", "", AnyAccept, Url(RobotsPath, Null)) }

Requests == Navigations \cup OtherDocuments \cup Subresources

NoReq == Req("", "", "", <<>>, Url(<<>>, Null))

\* --------------------------------------------------------- classification
\* String.prototype.startsWith on token sequences
StartsWith(s, prefix) ==
  /\ Len(s) >= Len(prefix)
  /\ SubSeq(s, 1, Len(prefix)) = prefix

\* (req.headers.get("accept") || "").includes("text/html")
AcceptsHtml(req) == \E i \in 1..Len(req.accept) : req.accept[i] = "text/html"

\* lines 103-104 and 164-167
IsDoc(req) ==
  \/ req.mode = "navigate"
  \/ req.destination = "document"
  \/ AcceptsHtml(req)

\* line 106: url.pathname === "/health" || url.pathname === "/version"
IsDiagPath(req) == req.url.path = HealthPath \/ req.url.path = VersionPath

\* line 186 (and the first disjunct of line 116)
IsApi(req) == StartsWith(req.url.path, <<"/", "api", "/">>)

\* lines 193-194
IsStaticAnyMethod(req) ==
  \/ StartsWith(req.url.path, <<"/", "static", "/">>)
  \/ StartsWith(req.url.path, <<"/", "favicon">>)

IsStatic(req) ==
  /\ req.method = "GET"
  /\ \/ StartsWith(req.url.path, <<"/", "static", "/">>)
     \/ StartsWith(req.url.path, <<"/", "favicon">>)

\* lines 196-197: a request without ?v= counts as matching
VersionMatchesStrict(req, ver) == req.url.v = ASSET_VERSION(ver)

VersionMatchesAny(req, ver) == TRUE

VersionMatches(req, ver) ==
  \/ req.url.v = Null
  \/ req.url.v = ASSET_VERSION(ver)

\* ------------------------------------------------------------------ strings
\* a string is a sequence of characters; a token that is none of the five
\* characters escapeHtml replaces may stand for a run of ordinary characters
Special == {"&", "<", ">", "\"", "'"}

\* lines 30-32: the replacement of one character
EntityNoApostrophe(c) ==
  CASE c = "&" -> <<"&", "a", "m", "p", ";">>
    [] c = "<" -> <<"&", "l", "t", ";">>
    [] c = ">" -> <<"&", "g", "t", ";">>
    [] c = "\"" -> <<"&", "q", "u", "o", "t", ";">>
    [] OTHER -> <<c>>

Entity(c) ==
  CASE c = "&" -> <<"&", "a", "m", "p", ";">>
    [] c = "<" -> <<"&", "l", "t", ";">>
    [] c = ">" -> <<"&", "g", "t", ";">>
    [] c = "\"" -> <<"&", "q", "u", "o", "t", ";">>
    [] c = "'" -> <<"&", "#", "3", "9", ";">>
    [] OTHER -> <<c>>

\* lines 29-33: String(s).replace(/[&<>"']/g, ...)
RECURSIVE escapeHtml(_)
escapeHtml(s) ==
  IF s = <<>> THEN <<>> ELSE Entity(Head(s)) \o escapeHtml(Tail(s))

\* String(n) of a non-negative integer (lines 81: status, ms)
Digit(d) ==
  CASE d = 0 -> "0" [] d = 1 -> "1" [] d = 2 -> "2" [] d = 3 -> "3"
    [] d = 4 -> "4" [] d = 5 -> "5" [] d = 6 -> "6" [] d = 7 -> "7"
    [] d = 8 -> "8" [] d = 9 -> "9"

RECURSIVE DecimalString(_)
DecimalString(n) ==
  IF n < 10 THEN <<Digit(n)>>
  ELSE DecimalString(n \div 10) \o <<Digit(n % 10)>>

\* ---- line 76: JSON.stringify(JSON.parse(text), null, 2), for the JSON
\* texts the upstream bodies of the model can form: a number, a string
\* without escapes, an array of at most one number, each with white space
\* around it
Whitespace == {" ", "\n"}

RECURSIVE TrimLeft(_)
TrimLeft(s) ==
  IF s # <<>> /\ Head(s) \in Whitespace THEN TrimLeft(Tail(s)) ELSE s

RECURSIVE TrimRight(_)
TrimRight(s) ==
  IF s # <<>> /\ s[Len(s)] \in Whitespace
  THEN TrimRight(SubSeq(s, 1, Len(s) - 1)) ELSE s

Trim(s) == TrimRight(TrimLeft(s))

DigitChars == {"0", "1", "2", "3", "4", "5", "6", "7", "8", "9"}

IsJsonNumber(s) ==
  /\ Len(s) >= 1
  /\ \A i \in 1..Len(s) : s[i] \in DigitChars
  /\ Len(s) > 1 => s[1] # "0"

IsJsonString(s) ==
  /\ Len(s) >= 2
  /\ s[1] = "\"" /\ s[Len(s)] = "\""
  /\ \A i \in 2..(Len(s) - 1) : s[i] \notin {"\"", "\\", "\n"}

IsJsonArray(s) ==
  /\ Len(s) >= 2
  /\ s[1] = "[" /\ s[Len(s)] = "]"
  /\ Len(s) > 2 => IsJsonNumber(SubSeq(s, 2, Len(s) - 1))

\* JSON.parse(text) does not throw
IsJson(text) ==
  LET s == Trim(text)
  IN IsJsonNumber(s) \/ IsJsonString(s) \/ IsJsonArray(s)

\* JSON.stringify(value, null, 2)
JsonPretty(text) ==
  LET s == Trim(text)
  IN IF IsJsonArray(s) /\ Len(s) > 2
     THEN <<"[", "\n", " ", " ">> \o SubSeq(s, 2, Len(s) - 1) \o <<"\n", "]">>
     ELSE s

\* line 77: the ceiling on a body that is not JSON
TruncateAt == 20000

\* the number of characters a token stands for: the tokens "a*n" are runs
\* of n letters
CharLen(c) ==
  CASE c = "a*19999" -> 19999
    [] c = "a*20000" -> 20000
    [] c = "a*20001" -> 20001
    [] c = "script" -> 6
    [] c = "offline" -> 7
    [] c = "Failed to fetch" -> 15
    [] c = "...[truncated]..." -> 17
    [] OTHER -> 1

\* String.prototype.length
RECURSIVE Length(_)
Length(s) == IF s = <<>> THEN 0 ELSE CharLen(Head(s)) + Length(Tail(s))

\* the first n characters of a run of letters
RunPrefix(c, n) ==
  CASE n = 19999 -> "a*19999"
    [] n = 20000 -> "a*20000"
    [] n = 1 -> "a"

\* String.prototype.slice(0, n)
RECURSIVE Slice(_, _)
Slice(s, n) ==
  IF s = <<>> \/ n = 0 THEN <<>>
  ELSE IF CharLen(Head(s)) <= n
       THEN <<Head(s)>> \o Slice(Tail(s), n - CharLen(Head(s)))
       ELSE <<RunPrefix(Head(s), n)>>

\* line 77: "\n...[truncated]..."
TruncationMarker == <<"\n", "...[truncated]...">>

\* lines 75-77: a body that is JSON is printed again, any other body is
\* cut at the ceiling
PrettyCutsJsonToo(text) ==
  LET shown == IF IsJson(text) THEN JsonPretty(text) ELSE text
  IN IF Length(shown) > TruncateAt
     THEN Slice(shown, TruncateAt) \o TruncationMarker
     ELSE shown

Pretty(text) ==
  IF IsJson(text) THEN JsonPretty(text)
  ELSE IF Length(text) > TruncateAt
       THEN Slice(text, TruncateAt) \o TruncationMarker
       ELSE text

\* ---------------------------------------------------------------- responses
Resp(status, via, body) ==
  [status |-> status, via |-> via, body |-> body, href |-> <<>>, doc |-> <<>>]

NoResp == Resp(0, "none", "")

\* what the network resolves a fetch with: an ok or a non-ok response;
\* "changed" is an ok response with another body than "ok"
NetResp(outcome) ==
  IF outcome = "ok" THEN Resp(200, "network", "upstream")
  ELSE IF outcome = "changed" THEN Resp(200, "network", "upstream-2")
  ELSE Resp(404, "network", "upstream")

\* a stored response handed back by cache.match
Cached(resp) == [resp EXCEPT !.via = "cache"]

\* lines 209 and 222: new Response("", { status: 504 })
Unavailable == Resp(504, "worker", "")

\* lines 176-179: a text/plain response
OfflineResponse == Resp(503, "worker", "offline-text")

\* line 95
NetworkErrorResponse == Resp(503, "worker", "Network error")

\* an HTML document is a sequence of parts: the markup of the template, and
\* the texts interpolated into it, each named after what it shows
Markup(m) == [k |-> "markup", f |-> "", s |-> <<m>>]

Text(f, s) == [k |-> "text", f |-> f, s |-> s]

\* lines 35-51: wrapSimplePage always answers 200 text/html
wrapSimplePage(title, bodyHtml) ==
  [Resp(200, "worker", "page") EXCEPT
     !.doc = <<Markup("<!doctype html><html><head><title>"),
               Text("title", title),
               Markup("</title><style/></head><body><div><h1>"),
               Text("title", title),
               Markup("</h1><div class=card>")>>
             \o bodyHtml
             \o <<Markup("</div></div></body></html>")>>]

\* line 93: the page networkOnly answers a failed document fetch with
ErrorPage(msg) ==
  [wrapSimplePage(<<"Network error">>,
                  <<Markup("<p>cannot get the latest screen</p><pre>"),
                    Text("message", escapeHtml(msg)),
                    Markup("</pre>")>>)
     EXCEPT !.body = "network-error-page"]

RootPath == <<"/">>

\* line 67
Title(pathname) ==
  IF pathname = HealthPath THEN <<"Health">> ELSE <<"Version">>

\* lines 80-85: the page handleHealthOrVersion answers with
DiagPageLeaksLatency(pathname, status, ms, pretty, backHref) ==
  [wrapSimplePage(<<"Mini Rose - ">> \o Title(pathname),
     <<Markup("<div>status="),
       Text("status", escapeHtml(DecimalString(status))),
       Markup(" time="),
       Text("time", escapeHtml(DecimalString(ms))),
       Markup("ms path="),
       Text("path", escapeHtml(pathname)),
       Markup("</div><p>latest answer of the server</p><pre>"),
       Text("body", escapeHtml(pretty \o DecimalString(ms))),
       Markup("</pre><p><a class=btn href="),
       Text("href", backHref),
       Markup(">back to search</a></p>")>>)
     EXCEPT !.body = "diag-page", !.href = backHref]

DiagPage(pathname, status, ms, pretty, backHref) ==
  [wrapSimplePage(<<"Mini Rose - ">> \o Title(pathname),
     <<Markup("<div>status="),
       Text("status", escapeHtml(DecimalString(status))),
       Markup(" time="),
       Text("time", escapeHtml(DecimalString(ms))),
       Markup("ms path="),
       Text("path", escapeHtml(pathname)),
       Markup("</div><p>latest answer of the server</p><pre>"),
       Text("body", escapeHtml(pretty)),
       Markup("</pre><p><a class=btn href="),
       Text("href", backHref),
       Markup(">back to search</a></p>")>>)
     EXCEPT !.body = "diag-page", !.href = backHref]

\* what a rejected fetch carries in e.message
ErrMessages == { <<"Failed to fetch">>, <<"<", "offline", ">">> }

\* Date.now() - start, in ms
Latencies == {3, 12}

\* the characters upstream bodies are made of: the five escapeHtml replaces,
\* a letter and a digit
Chars == Special \cup {"a", "1"}

\* bodies at and beyond the ceiling of line 77: 20000 letters, 20001
\* letters, 19999 letters followed by <>, and a JSON string of 20000 letters
LongBodies ==
  { <<"a*20000">>, <<"a*20001">>, <<"a*19999", "<", ">">>,
    <<"\"", "a*20000", "\"">> }

\* upstream bodies of the diagnostic endpoints: every string of up to
\* MaxBodyLen characters, and a few longer ones
Bodies ==
  UNION { [1..k -> Chars] : k \in 0..MaxBodyLen }
    \cup { <<"[", "1", "]">>, <<"<", "script", ">">>, <<" ", "1", "\n">> }
    \cup LongBodies

\* an ordinary upstream answer: a JSON body, a latency, an error message
Plain == [text |-> <<"1">>, ms |-> 3, msg |-> <<"Failed to fetch">>]

NetOutcomes == {"ok", "notok", "throw"}

\* ------------------------------------------------------------------- state
VARIABLES
  cacheNames,   \* CacheStorage: the names of the caches that exist
  entries,      \* CacheStorage: the stored responses, [gen, key, resp]
  putq,         \* cache.put calls that were started and not yet settled
  ev,           \* fetch events, one per slot: both listeners' tasks
  activeVer,    \* VER of the active worker instance (Null: none yet)
  life,         \* the instance being installed / activated
  a1,           \* activate listener of lines 13-26
  a2,           \* activate listener of lines 150-157
  claimedBy,    \* VER of the instance that controls the open clients
  preloadOn,    \* navigation preload enabled on the registration
  off           \* the self-unregistering worker (src/unnamed/part_002)

vars == <<cacheNames, entries, putq, ev, activeVer, life, a1, a2,
          claimedBy, preloadOn, off>>

Slots == 1..MaxInFlight

\* the slots of the events that race for one key: one more than MaxInFlight
Racers == 1..(MaxInFlight + 1)

\* lines 69-78: what handleHealthOrVersion keeps of the upstream answer
NoUp == [status |-> 0, text |-> <<>>, ms |-> 0]

\* an async function of a fetch listener: where it is suspended, what it did
\* so far, and how the promise it returned was settled
Task(pc) ==
  [pc |-> pc, net |-> 0, reads |-> 0, puts |-> 0, hit |-> FALSE,
   cache |-> "none", orph |-> {}, failed |-> FALSE,
   up |-> NoUp, probes |-> <<>>,
   out |-> "pending", res |-> NoResp]

IdleEv ==
  [st |-> "idle", req |-> NoReq, ver |-> Null,
   t1 |-> Task("idle"), t2 |-> Task("idle"),
   responder |-> 0, threw |-> {}]

Resolve(t, resp) == [t EXCEPT !.pc = "done", !.out = "resolved", !.res = resp]

Reject(t) == [t EXCEPT !.pc = "done", !.out = "rejected"]

\* ------------------------------------------------------------ CacheStorage
\* caches.open(name): creates the cache when it does not exist
Opened(names, name) == names \cup {name}

\* cache.match(request): same URL (query included)
Lookup(ents, gen, key) == { x \in ents : x.gen = gen /\ x.key = key }

\* cache.put(request, response): replaces the entry stored under the key
StoredFirstWins(ents, gen, req, resp) ==
  IF Lookup(ents, gen, req.url) # {} THEN ents
  ELSE ents \cup {[gen |-> gen, key |-> req.url, req |-> req, resp |-> resp]}

Stored(ents, gen, req, resp) ==
  { x \in ents : ~(x.gen = gen /\ x.key = req.url) }
    \cup {[gen |-> gen, key |-> req.url, req |-> req, resp |-> resp]}

\* caches.delete(name): the cache and its entries are gone; a Cache object a
\* handler still holds keeps the entries it had, detached from the name
Detach(t, ents, name, gen) ==
  IF t.cache = "live" /\ gen = name
  THEN [t EXCEPT !.cache = "orphan",
                 !.orph = { y \in ents : y.gen = name }]
  ELSE t

DetachAll(events, ents, name) ==
  [e \in DOMAIN events |->
     [events[e] EXCEPT
        !.t2 = Detach(events[e].t2, ents, name, STATIC_CACHE(events[e].ver))]]

DetachPuts(q, name) ==
  { IF p.gen = name THEN [p EXCEPT !.orphan = TRUE] ELSE p : p \in q }

\* -------------------------------------------------------------------- Init
IdleAct == [pc |-> "idle", targets |-> {}, pend |-> {}, tried |-> {},
            failed |-> {}, out |-> "pending"]

NoInstall == [phase |-> "none", ver |-> Null, pc |-> "-", fails |-> {},
              supportsPreload |-> FALSE]

\* part_002, the async functions of lines 23-59 and 66-76: where the task
\* is suspended, the deletions and navigations it started that have not
\* settled, the steps it attempted in order, the steps that failed
OffTask == [pc |-> "idle", pend |-> {}, steps |-> <<>>, failed |-> {},
            navs |-> {}, out |-> "pending"]

\* part_002 not deployed: the registration stands, nothing ran
OffIdle == [phase |-> "none", registered |-> TRUE, controlled |-> {},
            reloaded |-> {}, seen |-> Null, act |-> OffTask, msg |-> OffTask]

\* before the first registration: caches of earlier deployments may exist
LifeInit ==
  /\ cacheNames \in {{}, OldGenerations}
  /\ entries = {}
  /\ putq = {}
  /\ ev = [e \in Racers |-> IdleEv]
  /\ activeVer = Null
  /\ life = NoInstall
  /\ a1 = IdleAct
  /\ a2 = IdleAct
  /\ claimedBy = Null
  /\ preloadOn = FALSE
  /\ off = OffIdle

\* ------------------------------------------------------------ fetch events
\* FetchEvent.respondWith: the first call is accepted, a later call on the
\* same event throws InvalidStateError
RespondWith(x, listener) ==
  IF x.responder = 0
  THEN [x EXCEPT !.responder = listener]
  ELSE [x EXCEPT !.threw = @ \cup {listener}]

\* lines 100-122: the branch the first fetch listener takes
L1BranchNavigateOnly(req) ==
  IF req.mode = "navigate" /\ IsDiagPath(req) THEN "diagFetch"
  ELSE IF IsDoc(req) THEN "docNet"
  ELSE "net"

L1Branch(req) ==
  IF IsDoc(req) /\ IsDiagPath(req) THEN "diagFetch"
  ELSE IF IsDoc(req) THEN "docNet"
  ELSE "net"

\* lines 159-230: the branch the second fetch listener takes
L2BranchStaticFirst(req) ==
  IF IsStatic(req) THEN "open"
  ELSE IF IsDoc(req) THEN "docFetch"
  ELSE "netFetch"

L2Branch(req) ==
  IF IsDoc(req) THEN "docFetch"
  ELSE IF IsApi(req) THEN "netFetch"
  ELSE IF IsStatic(req) THEN "open"
  ELSE "netFetch"

Finish(x) ==
  IF x.t1.pc = "done" /\ x.t2.pc = "done" THEN [x EXCEPT !.st = "done"] ELSE x

SetT1(e, t) == ev' = [ev EXCEPT ![e] = Finish([@ EXCEPT !.t1 = t])]

SetT2(e, t) == ev' = [ev EXCEPT ![e] = Finish([@ EXCEPT !.t2 = t])]

Attempt(t) == [t EXCEPT !.net = @ + 1]

\* a fetch event reaches the active worker: both listeners run, in the order
\* they were registered, each up to its first await
Dispatch(e, req) ==
  /\ activeVer # Null
  /\ life.phase # "activating"
  /\ ev[e].st # "run"
  /\ ev' = [ev EXCEPT ![e] =
       RespondWith(
         RespondWith(
           [IdleEv EXCEPT !.st = "run", !.req = req, !.ver = activeVer,
                          !.t1 = Task(L1Branch(req)),
                          !.t2 = Task(L2Branch(req))],
           1),
         2)]
  /\ UNCHANGED <<off, cacheNames, entries, putq, activeVer, life, a1, a2,
                 claimedBy, preloadOn>>

\* ---- first listener
\* lines 88-97: networkOnly; msg is e.message of a rejected fetch
NetworkOnly(t, outcome, isDocument, msg) ==
  IF outcome # "throw" THEN Resolve(Attempt(t), NetResp(outcome))
  ELSE IF isDocument
       THEN Resolve([Attempt(t) EXCEPT !.failed = TRUE], ErrorPage(msg))
       ELSE Resolve([Attempt(t) EXCEPT !.failed = TRUE], NetworkErrorResponse)

\* lines 111-121
L1Net(e, outcome, msg) ==
  /\ ev[e].t1.pc \in {"docNet", "net"}
  /\ SetT1(e, NetworkOnly(ev[e].t1, outcome, ev[e].t1.pc = "docNet", msg))
  /\ UNCHANGED <<off, cacheNames, entries, putq, activeVer, life, a1, a2,
                 claimedBy, preloadOn>>

\* lines 69-74 and 78: status and text of the upstream answer.  A rejected
\* fetch leaves status 0 and the message as text; a body that cannot be read
\* ("bodyfail") leaves the status and the message as text
Upstream(outcome, text, ms, msg) ==
  IF outcome = "throw" THEN [status |-> 0, text |-> msg, ms |-> ms]
  ELSE IF outcome = "bodyfail" THEN [status |-> 200, text |-> msg, ms |-> ms]
  ELSE [status |-> NetResp(outcome).status, text |-> text, ms |-> ms]

DiagOutcomes == NetOutcomes \cup {"bodyfail"}

\* lines 66-78: the upstream fetch of a diagnostic page
L1DiagFetch(e, outcome, text, ms, msg) ==
  /\ ev[e].t1.pc = "diagFetch"
  /\ SetT1(e, [Attempt(ev[e].t1) EXCEPT
                 !.pc = "head",
                 !.failed = (outcome \in {"throw", "bodyfail"}),
                 !.up = Upstream(outcome, text, ms, msg)])
  /\ UNCHANGED <<off, cacheNames, entries, putq, activeVer, life, a1, a2,
                 claimedBy, preloadOn>>

\* lines 79-85: the page, once decideReturnHref gave backHref
Render(t, req, backHref) ==
  Resolve(t, DiagPage(req.url.path, t.up.status, t.up.ms, Pretty(t.up.text),
                      backHref))

Probe(t, method, outcome) ==
  [Attempt(t) EXCEPT !.probes = Append(@, [method |-> method, outcome |-> outcome])]

\* lines 54-57: HEAD /ui; "/ui" when it is ok, else on to the GET probe
AfterHeadNoGet(t, req, outcome) ==
  IF outcome = "ok" THEN Render(Probe(t, "HEAD", outcome), req, UiPath)
  ELSE Render(Probe(t, "HEAD", outcome), req, RootPath)

AfterHead(t, req, outcome) ==
  IF outcome = "ok" THEN Render(Probe(t, "HEAD", outcome), req, UiPath)
  ELSE [Probe(t, "HEAD", outcome) EXCEPT !.pc = "get"]

\* lines 59-63: GET /ui; "/ui" when it is ok, else the origin root
AfterGet(t, req, outcome) ==
  Render(Probe(t, "GET", outcome), req,
         IF outcome = "ok" THEN UiPath ELSE RootPath)

\* lines 53-57
L1Head(e, outcome) ==
  /\ ev[e].t1.pc = "head"
  /\ SetT1(e, AfterHead(ev[e].t1, ev[e].req, outcome))
  /\ UNCHANGED <<off, cacheNames, entries, putq, activeVer, life, a1, a2,
                 claimedBy, preloadOn>>

\* lines 58-63
L1Get(e, outcome) ==
  /\ ev[e].t1.pc = "get"
  /\ SetT1(e, AfterGet(ev[e].t1, ev[e].req, outcome))
  /\ UNCHANGED <<off, cacheNames, entries, putq, activeVer, life, a1, a2,
                 claimedBy, preloadOn>>

\* ---- second listener
\* the entries a handler sees through the Cache object it holds
Seen(t, ver) ==
  IF t.cache = "orphan" THEN t.orph
  ELSE { x \in entries : x.gen = STATIC_CACHE(ver) }

\* lines 169-173: the document fetch; a rejection goes to the fallback
DocAttemptNoFallback(t, outcome) ==
  IF outcome # "throw" THEN Resolve(Attempt(t), NetResp(outcome))
  ELSE Reject([Attempt(t) EXCEPT !.failed = TRUE])

DocAttempt(t, outcome) ==
  IF outcome # "throw" THEN Resolve(Attempt(t), NetResp(outcome))
  ELSE [Attempt(t) EXCEPT !.pc = "docOpen", !.failed = TRUE]

L2DocFetch(e, outcome) ==
  /\ ev[e].t2.pc = "docFetch"
  /\ SetT2(e, DocAttempt(ev[e].t2, outcome))
  /\ UNCHANGED <<off, cacheNames, entries, putq, activeVer, life, a1, a2,
                 claimedBy, preloadOn>>

\* line 174 and line 200: caches.open(STATIC_CACHE)
L2Open(e) ==
  /\ ev[e].t2.pc \in {"docOpen", "open"}
  /\ cacheNames' = Opened(cacheNames, STATIC_CACHE(ev[e].ver))
  /\ SetT2(e, [ev[e].t2 EXCEPT
       !.cache = "live",
       !.pc = IF ev[e].t2.pc = "docOpen" THEN "docMatch"
              ELSE IF VersionMatches(ev[e].req, ev[e].ver) THEN "match"
              ELSE "mmFetch"])
  /\ UNCHANGED <<off, entries, putq, activeVer, life, a1, a2,
                 claimedBy, preloadOn>>

\* lines 175-179: cache.match("/ui"), else the offline response
L2DocMatch(e) ==
  /\ ev[e].t2.pc = "docMatch"
  /\ LET found == { x \in Seen(ev[e].t2, ev[e].ver) : x.key = Url(UiPath, Null) }
         t == [ev[e].t2 EXCEPT !.reads = @ + 1, !.hit = (found # {})]
     IN SetT2(e, IF found # {}
                 THEN Resolve(t, Cached((CHOOSE x \in found : TRUE).resp))
                 ELSE Resolve(t, OfflineResponse))
  /\ UNCHANGED <<off, cacheNames, entries, putq, activeVer, life, a1, a2,
                 claimedBy, preloadOn>>

\* lines 187 and 229: fetch(req, { cache: "no-store" }), and .catch, which
\* takes a rejection only
FirstAttemptRetriesNotOk(t, outcome) ==
  IF outcome = "ok" THEN Resolve(Attempt(t), NetResp(outcome))
  ELSE [Attempt(t) EXCEPT !.pc = "netRetry", !.failed = (outcome = "throw")]

FirstAttempt(t, outcome) ==
  IF outcome # "throw" THEN Resolve(Attempt(t), NetResp(outcome))
  ELSE [Attempt(t) EXCEPT !.pc = "netRetry", !.failed = TRUE]

L2NetFetch(e, outcome) ==
  /\ ev[e].t2.pc = "netFetch"
  /\ SetT2(e, FirstAttempt(ev[e].t2, outcome))
  /\ UNCHANGED <<off, cacheNames, entries, putq, activeVer, life, a1, a2,
                 claimedBy, preloadOn>>

\* lines 187 and 229: .catch(() => fetch(req))
L2NetRetry(e, outcome) ==
  /\ ev[e].t2.pc = "netRetry"
  /\ SetT2(e, IF outcome # "throw"
              THEN Resolve(Attempt(ev[e].t2), NetResp(outcome))
              ELSE Reject(Attempt(ev[e].t2)))
  /\ UNCHANGED <<off, cacheNames, entries, putq, activeVer, life, a1, a2,
                 claimedBy, preloadOn>>

\* lines 203-211: a different version always goes to the network
L2MismatchFetch(e, outcome) ==
  /\ ev[e].t2.pc = "mmFetch"
  /\ SetT2(e, IF outcome # "throw"
              THEN Resolve(Attempt(ev[e].t2), NetResp(outcome))
              ELSE Resolve([Attempt(ev[e].t2) EXCEPT !.failed = TRUE], Unavailable))
  /\ UNCHANGED <<off, cacheNames, entries, putq, activeVer, life, a1, a2,
                 claimedBy, preloadOn>>

\* lines 214-215: cache.match(req); a hit is returned as it is
L2Match(e) ==
  /\ ev[e].t2.pc = "match"
  /\ LET found == { x \in Seen(ev[e].t2, ev[e].ver) : x.key = ev[e].req.url }
         t == [ev[e].t2 EXCEPT !.reads = @ + 1, !.hit = (found # {})]
     IN SetT2(e, IF found # {}
                 THEN Resolve(t, Cached((CHOOSE x \in found : TRUE).resp))
                 ELSE [t EXCEPT !.pc = "fetch"])
  /\ UNCHANGED <<off, cacheNames, entries, putq, activeVer, life, a1, a2,
                 claimedBy, preloadOn>>

\* line 219: an ok response is cloned into the cache; the put is not awaited
PutsNothing(e, t, resp) == putq

PutsAnyStatus(e, t, resp) ==
  putq \cup {[by |-> e, gen |-> STATIC_CACHE(ev[e].ver),
              req |-> ev[e].req, resp |-> resp,
              orphan |-> (t.cache = "orphan")]}

Puts(e, t, resp) ==
  IF resp.status = 200
  THEN putq \cup {[by |-> e, gen |-> STATIC_CACHE(ev[e].ver),
                   req |-> ev[e].req, resp |-> resp,
                   orphan |-> (t.cache = "orphan")]}
  ELSE putq

\* lines 217-223: the miss path
L2Fetch(e, outcome) ==
  /\ ev[e].t2.pc = "fetch"
  /\ LET t == Attempt(ev[e].t2)
         resp == NetResp(outcome)
     IN IF outcome # "throw"
        THEN /\ putq' = Puts(e, t, resp)
             /\ SetT2(e, Resolve([t EXCEPT !.puts =
                                    IF resp.status = 200 THEN @ + 1 ELSE @],
                                 resp))
        ELSE /\ putq' = putq
             /\ SetT2(e, Resolve([t EXCEPT !.failed = TRUE], Unavailable))
  /\ UNCHANGED <<off, cacheNames, entries, activeVer, life, a1, a2,
                 claimedBy, preloadOn>>

\* the write of a started cache.put lands; through a Cache object whose cache
\* was deleted it lands in the detached cache, which no name reaches
PutSettle(p) ==
  /\ p \in putq
  /\ putq' = putq \ {p}
  /\ entries' = IF p.orphan \/ p.gen \notin cacheNames THEN entries
                ELSE Stored(entries, p.gen, p.req, p.resp)
  /\ UNCHANGED <<off, cacheNames, ev, activeVer, life, a1, a2,
                 claimedBy, preloadOn>>

\* ------------------------------------------------------------------ install
\* requests cache.addAll builds from the manifest URLs
PrecacheReq(u) == Req("GET", "cors", "", AnyAccept, u)

\* lines 9-11 and 142-148: a new instance of the script is registered and
\* both install listeners run; skipWaiting() is called, and the second one
\* starts caches.open(STATIC_CACHE).  The deletions of the activation before
\* have settled by then
Register(param) ==
  /\ life.phase \in {"none", "activated", "redundant"}
  /\ a1.pend = {} /\ a2.pend = {}
  /\ life' = [NoInstall EXCEPT !.phase = "installing", !.ver = VER(param),
                               !.pc = "open"]
  /\ a1' = IdleAct
  /\ a2' = IdleAct
  /\ UNCHANGED <<off, cacheNames, entries, putq, ev, activeVer, claimedBy, preloadOn>>

\* line 146: caches.open(STATIC_CACHE); a rejection rejects the promise given
\* to waitUntil, and the instance becomes redundant
InstallOpen(ok) ==
  /\ life.phase = "installing" /\ life.pc = "open"
  /\ IF ok
     THEN /\ cacheNames' = Opened(cacheNames, STATIC_CACHE(life.ver))
          /\ life' = [life EXCEPT !.pc = "addAll"]
     ELSE /\ cacheNames' = cacheNames
          /\ life' = [life EXCEPT !.phase = "redundant", !.pc = "settled"]
  /\ UNCHANGED <<off, entries, putq, ev, activeVer, a1, a2, claimedBy, preloadOn>>

\* Cache.addAll: every URL is fetched; the responses are stored only when
\* all of them arrived with an ok status, otherwise the promise rejects and
\* nothing is stored
AddAll(ents, gen, urls, fails) ==
  IF fails = {}
  THEN { x \in ents : ~(x.gen = gen /\ x.key \in urls) }
         \cup { [gen |-> gen, key |-> u, req |-> PrecacheReq(u),
                 resp |-> NetResp("ok")] : u \in urls }
  ELSE ents

\* the promise of lines 145-147 as install settles it
InstallOutcome(fails) == IF fails = {} THEN "installed" ELSE "redundant"

\* line 146: cache.addAll(PRECACHE_URLS), `fails` being the URLs whose fetch
\* fails.  After a successful install the instance activates at once
\* (skipWaiting): it becomes the active worker and the activate event reaches
\* both activate listeners, each of which starts with caches.keys()
InstallAddAll(fails, supportsPreload) ==
  /\ life.phase = "installing" /\ life.pc = "addAll"
  /\ fails \subseteq PRECACHE_URLS(life.ver)
  /\ entries' = IF STATIC_CACHE(life.ver) \in cacheNames
                THEN AddAll(entries, STATIC_CACHE(life.ver),
                            PRECACHE_URLS(life.ver), fails)
                ELSE entries
  /\ IF InstallOutcome(fails) = "installed"
     THEN /\ life' = [life EXCEPT !.phase = "activating", !.pc = "settled",
                                  !.fails = fails,
                                  !.supportsPreload = supportsPreload]
          /\ activeVer' = life.ver
          /\ a1' = [IdleAct EXCEPT !.pc = "keys"]
          /\ a2' = [IdleAct EXCEPT !.pc = "keys"]
     ELSE /\ life' = [life EXCEPT !.phase = "redundant", !.pc = "settled",
                                  !.fails = fails]
          /\ UNCHANGED <<activeVer, a1, a2>>
  /\ UNCHANGED <<off, cacheNames, putq, ev, claimedBy, preloadOn>>

\* ----------------------------------------------------------------- activate
\* line 16: caches.keys() inside try; a rejection is caught (line 18)
Keys1Uncaught(a, ok) ==
  IF ok
  THEN [a EXCEPT !.targets = cacheNames, !.pend = cacheNames,
                 !.tried = @ \cup (IF cacheNames = {} THEN {} ELSE {"delete"}),
                 !.pc = IF cacheNames = {} THEN "preload" ELSE "delete"]
  ELSE [a EXCEPT !.failed = @ \cup {"keys"}, !.pc = "done", !.out = "rejected"]

Keys1(a, ok) ==
  IF ok
  THEN [a EXCEPT !.targets = cacheNames, !.pend = cacheNames,
                 !.tried = @ \cup (IF cacheNames = {} THEN {} ELSE {"delete"}),
                 !.pc = IF cacheNames = {} THEN "preload" ELSE "delete"]
  ELSE [a EXCEPT !.failed = @ \cup {"keys"}, !.pc = "preload"]

\* lines 153-154: caches.keys(), then every key but STATIC_CACHE; no try
Keys2(a, ok, own) ==
  IF ok
  THEN [a EXCEPT !.targets = cacheNames \ {own}, !.pend = cacheNames \ {own},
                 !.tried = @ \cup (IF cacheNames \ {own} = {} THEN {}
                                   ELSE {"delete"}),
                 !.pc = IF cacheNames \ {own} = {} THEN "claim" ELSE "delete"]
  ELSE [a EXCEPT !.failed = @ \cup {"keys"}, !.pc = "done", !.out = "rejected"]

ActKeys1(ok) ==
  /\ life.phase = "activating" /\ a1.pc = "keys"
  /\ a1' = Keys1(a1, ok)
  /\ UNCHANGED <<off, cacheNames, entries, putq, ev, activeVer, life, a2,
                 claimedBy, preloadOn>>

ActKeys2(ok) ==
  /\ life.phase = "activating" /\ a2.pc = "keys"
  /\ a2' = Keys2(a2, ok, STATIC_CACHE(life.ver))
  /\ UNCHANGED <<off, cacheNames, entries, putq, ev, activeVer, life, a1,
                 claimedBy, preloadOn>>

\* caches.delete(k) on CacheStorage
Deleted(k, ok) ==
  IF ok
  THEN /\ cacheNames' = cacheNames \ {k}
       /\ entries' = { x \in entries : x.gen # k }
       /\ ev' = DetachAll(ev, entries, k)
       /\ putq' = DetachPuts(putq, k)
  ELSE UNCHANGED <<cacheNames, entries, ev, putq>>

\* lines 17-18: Promise.all over the deletions, inside try.  All deletions
\* were started together; the first rejection ends the wait (caught), the
\* other deletions go on
Settle1(a, k, ok) ==
  LET b == [a EXCEPT !.pend = @ \ {k},
                     !.failed = IF ok THEN @ ELSE @ \cup {"delete"}]
  IN IF a.pc # "delete" THEN b
     ELSE IF ~ok \/ b.pend = {} THEN [b EXCEPT !.pc = "preload"]
     ELSE b

\* line 154: Promise.all over the deletions, no try: the first rejection
\* rejects the task
Settle2(a, k, ok) ==
  LET b == [a EXCEPT !.pend = @ \ {k},
                     !.failed = IF ok THEN @ ELSE @ \cup {"delete"}]
  IN IF a.pc # "delete" THEN b
     ELSE IF ~ok THEN [b EXCEPT !.pc = "done", !.out = "rejected"]
     ELSE IF b.pend = {} THEN [b EXCEPT !.pc = "claim"]
     ELSE b

DeleteSettle1(k, ok) ==
  /\ k \in a1.pend
  /\ Deleted(k, ok)
  /\ a1' = Settle1(a1, k, ok)
  /\ UNCHANGED <<off, activeVer, life, a2, claimedBy, preloadOn>>

DeleteSettle2(k, ok) ==
  /\ k \in a2.pend
  /\ Deleted(k, ok)
  /\ a2' = Settle2(a2, k, ok)
  /\ UNCHANGED <<off, activeVer, life, a1, claimedBy, preloadOn>>

\* lines 19-23: navigationPreload.enable() when the registration has it,
\* inside try
ActPreload(ok) ==
  /\ life.phase = "activating" /\ a1.pc = "preload"
  /\ IF life.supportsPreload
     THEN /\ a1' = [a1 EXCEPT !.pc = "claim", !.tried = @ \cup {"preload"},
                              !.failed = IF ok THEN @ ELSE @ \cup {"preload"}]
          /\ preloadOn' = (preloadOn \/ ok)
     ELSE /\ a1' = [a1 EXCEPT !.pc = "claim"]
          /\ preloadOn' = preloadOn
  /\ UNCHANGED <<off, cacheNames, entries, putq, ev, activeVer, life, a2,
                 claimedBy>>

\* lines 24 and 155: await self.clients.claim(), the last statement
Claim(a, ok) ==
  [a EXCEPT !.pc = "done", !.tried = @ \cup {"claim"},
            !.failed = IF ok THEN @ ELSE @ \cup {"claim"},
            !.out = IF ok THEN "resolved" ELSE "rejected"]

ActClaim1(ok) ==
  /\ life.phase = "activating" /\ a1.pc = "claim"
  /\ a1' = Claim(a1, ok)
  /\ claimedBy' = IF ok THEN life.ver ELSE claimedBy
  /\ UNCHANGED <<off, cacheNames, entries, putq, ev, activeVer, life, a2,
                 preloadOn>>

ActClaim2(ok) ==
  /\ life.phase = "activating" /\ a2.pc = "claim"
  /\ a2' = Claim(a2, ok)
  /\ claimedBy' = IF ok THEN life.ver ELSE claimedBy
  /\ UNCHANGED <<off, cacheNames, entries, putq, ev, activeVer, life, a1,
                 preloadOn>>

\* both promises given to waitUntil are settled: the instance is activated
\* (a rejected activation still activates) and fetch events reach it
ActDone ==
  /\ life.phase = "activating"
  /\ a1.pc = "done" /\ a2.pc = "done"
  /\ life' = [life EXCEPT !.phase = "activated"]
  /\ UNCHANGED <<off, cacheNames, entries, putq, ev, activeVer, a1, a2,
                 claimedBy, preloadOn>>

\* ------------------------------------------------ the life of an instance
LifeNext ==
  \/ \E p \in RegParams : Register(p)
  \/ \E ok \in BOOLEAN : InstallOpen(ok)
  \/ \E f \in SUBSET PRECACHE_URLS(life.ver), sp \in BOOLEAN : InstallAddAll(f, sp)
  \/ \E ok \in BOOLEAN : ActKeys1(ok)
  \/ \E ok \in BOOLEAN : ActKeys2(ok)
  \/ \E k \in a1.pend, ok \in BOOLEAN : DeleteSettle1(k, ok)
  \/ \E k \in a2.pend, ok \in BOOLEAN : DeleteSettle2(k, ok)
  \/ \E ok \in BOOLEAN : ActPreload(ok)
  \/ \E ok \in BOOLEAN : ActClaim1(ok)
  \/ \E ok \in BOOLEAN : ActClaim2(ok)
  \/ ActDone

\* install and activation of successive instances, on their own
SpecLife == LifeInit /\ [][LifeNext]_vars

\* --------------------------------------------- the fetch events of an instance
\* the entries install leaves in the generation of `ver`
Precached(ver) ==
  AddAll({}, STATIC_CACHE(ver), PRECACHE_URLS(ver), {})

\* an activated instance registered with ?v=5, in a CacheStorage as its
\* activation can leave it: emptied by the listener of lines 13-26, or, when
\* deletions failed, still holding generations and the precached entries
Init ==
  /\ activeVer = VER("5")
  /\ cacheNames \in {{}, {STATIC_CACHE(activeVer)},
                     {STATIC_CACHE("4"), STATIC_CACHE(activeVer)}}
  /\ entries \in IF STATIC_CACHE(activeVer) \in cacheNames
                 THEN {{}, Precached(activeVer)}
                 ELSE {{}}
  /\ putq = {}
  /\ ev = [e \in Racers |-> IdleEv]
  /\ life = [NoInstall EXCEPT !.phase = "activated", !.ver = activeVer,
                              !.pc = "settled"]
  /\ a1 = [IdleAct EXCEPT !.pc = "done"]
  /\ a2 = [IdleAct EXCEPT !.pc = "done"]
  /\ claimedBy = activeVer
  /\ preloadOn = FALSE
  /\ off = OffIdle

Next ==
  \/ \E e \in Slots, r \in Requests : Dispatch(e, r)
  \/ \E e \in Slots, o \in NetOutcomes : L1Net(e, o, Plain.msg)
  \/ \E e \in Slots, o \in NetOutcomes :
        L1DiagFetch(e, o, Plain.text, Plain.ms, Plain.msg)
  \/ \E e \in Slots, o \in NetOutcomes : L1Head(e, o)
  \/ \E e \in Slots, o \in NetOutcomes : L1Get(e, o)
  \/ \E e \in Slots, o \in NetOutcomes : L2DocFetch(e, o)
  \/ \E e \in Slots : L2Open(e)
  \/ \E e \in Slots : L2DocMatch(e)
  \/ \E e \in Slots, o \in NetOutcomes : L2NetFetch(e, o)
  \/ \E e \in Slots, o \in NetOutcomes : L2NetRetry(e, o)
  \/ \E e \in Slots, o \in NetOutcomes : L2MismatchFetch(e, o)
  \/ \E e \in Slots : L2Match(e)
  \/ \E e \in Slots, o \in NetOutcomes : L2Fetch(e, o)
  \/ \E p \in putq : PutSettle(p)

Spec == Init /\ [][Next]_vars

\* ------------------------------------------------- events racing for a key
\* a static GET of the active version
RaceRequest == Req("GET", "cors", "", AnyAccept, Url(AppJsPath, "5"))

\* the network may answer two fetches of one URL with different bodies
RaceOutcomes == NetOutcomes \cup {"changed"}

\* the store holds nothing yet
InitRace ==
  /\ Init
  /\ cacheNames \in {{}, {STATIC_CACHE(activeVer)}}
  /\ entries = {}

NextRace ==
  \/ \E e \in Racers : Dispatch(e, RaceRequest)
  \/ \E e \in Racers, o \in NetOutcomes : L1Net(e, o, Plain.msg)
  \/ \E e \in Racers : L2Open(e)
  \/ \E e \in Racers : L2Match(e)
  \/ \E e \in Racers, o \in RaceOutcomes : L2Fetch(e, o)
  \/ \E p \in putq : PutSettle(p)

\* fetch events for the same static key, in flight at the same time
SpecRace == InitRace /\ [][NextRace]_vars

\* ------------------------------- fetch events while a new instance activates
\* the instance registered with ?v=5 is active and holds its precache; the
\* script is then registered with ?v=6 while fetch events of the page are
\* being handled
InitMixed ==
  /\ Init
  /\ cacheNames = {STATIC_CACHE(activeVer)}
  /\ entries = Precached(activeVer)

NextMixed ==
  \/ Register("6")
  \/ \E ok \in BOOLEAN : InstallOpen(ok)
  \/ \E f \in {{}, PRECACHE_URLS(life.ver)} : InstallAddAll(f, FALSE)
  \/ \E ok \in BOOLEAN : ActKeys1(ok)
  \/ \E ok \in BOOLEAN : ActKeys2(ok)
  \/ \E k \in a1.pend, ok \in BOOLEAN : DeleteSettle1(k, ok)
  \/ \E k \in a2.pend, ok \in BOOLEAN : DeleteSettle2(k, ok)
  \/ \E ok \in BOOLEAN : ActPreload(ok)
  \/ \E ok \in BOOLEAN : ActClaim1(ok)
  \/ \E ok \in BOOLEAN : ActClaim2(ok)
  \/ ActDone
  \/ \E e \in Slots : Dispatch(e, RaceRequest)
  \/ \E e \in Slots, o \in NetOutcomes : L1Net(e, o, Plain.msg)
  \/ \E e \in Slots : L2Open(e)
  \/ \E e \in Slots : L2Match(e)
  \/ \E e \in Slots, o \in NetOutcomes : L2MismatchFetch(e, o)
  \/ \E e \in Slots, o \in NetOutcomes : L2Fetch(e, o)
  \/ \E p \in putq : PutSettle(p)

SpecMixed == InitMixed /\ [][NextMixed]_vars

\* ------------------------------------- requests to the diagnostic endpoints
\* GET /health and GET /version with every combination of the three
\* document signals
PageRequests ==
  { Req("GET", m, d, a, Url(HealthPath, Null)) :
      m \in {"navigate", "cors"}, d \in {"document", ""},
      a \in {HtmlAccept, AnyAccept} }
  \cup
  { Req("GET", "navigate", "document", HtmlAccept, Url(VersionPath, Null)),
    Req("GET", "cors", "", AnyAccept, Url(VersionPath, Null)),
    Req("GET", "navigate", "document", HtmlAccept, Url(UiPath, Null)) }

InitPage ==
  /\ Init
  /\ cacheNames = {STATIC_CACHE(activeVer)}
  /\ entries = Precached(activeVer)

NextPage ==
  \/ \E e \in Slots, r \in PageRequests : Dispatch(e, r)
  \/ \E e \in Slots, o \in NetOutcomes, m \in ErrMessages : L1Net(e, o, m)
  \/ \E e \in Slots, o \in DiagOutcomes, b \in Bodies, ms \in Latencies,
        m \in ErrMessages : L1DiagFetch(e, o, b, ms, m)
  \/ \E e \in Slots, o \in NetOutcomes : L1Head(e, o)
  \/ \E e \in Slots, o \in NetOutcomes : L1Get(e, o)
  \/ \E e \in Slots, o \in NetOutcomes : L2DocFetch(e, o)
  \/ \E e \in Slots : L2Open(e)
  \/ \E e \in Slots : L2DocMatch(e)
  \/ \E e \in Slots, o \in NetOutcomes : L2NetFetch(e, o)
  \/ \E e \in Slots, o \in NetOutcomes : L2NetRetry(e, o)

\* the fetch events for /health and /version, with upstream bodies of every
\* shape
SpecPage == InitPage /\ [][NextPage]_vars

\* ============================================================ properties
\* the handler of lines 199-224 runs for the event in slot e
StaticEvent(e) == ev[e].st # "idle" /\ L2Branch(ev[e].req) = "open"

\* the key of the event in slot e is stored in the generation of its worker
InStore(e) ==
  Lookup(entries, STATIC_CACHE(ev[e].ver), ev[e].req.url) # {}

\* the put started by the handler in slot e is pending or has landed
Persisting(e) ==
  \/ \E p \in putq : /\ p.gen = STATIC_CACHE(ev[e].ver)
                     /\ p.req = ev[e].req
                     /\ p.resp = ev[e].t2.res
  \/ \E x \in Lookup(entries, STATIC_CACHE(ev[e].ver), ev[e].req.url) :
       x.resp = ev[e].t2.res

\* what a cache-first handler that has finished did
CacheFirst(e) ==
  LET t == ev[e].t2 IN
    /\ t.reads = 1
    /\ t.out = "resolved"
    /\ t.hit => t.net = 0 /\ t.puts = 0 /\ t.res.via = "cache"
    /\ ~t.hit => t.net = 1
    /\ (~t.hit /\ t.res = NetResp("ok")) => t.puts = 1 /\ Persisting(e)

\* C1, for finished handlers: a version-matching static GET reads the store
\* once; on a miss answered ok by the network it made one network fetch and
\* started the put of that response under the request key; on a hit it made
\* no network call and answers with the stored response
C1_Finished ==
  \A e \in Slots :
    (/\ StaticEvent(e)
     /\ ev[e].req.url.v = ASSET_VERSION(ev[e].ver)
     /\ ev[e].t2.pc = "done") => CacheFirst(e)

\* C1, step by step: a put that settles leaves the response under its key,
\* and a handler that looks up a key the store holds is done at once, with
\* the stored response and without a network call
C1_Steps ==
  /\ \A p \in putq :
       (p \notin putq' /\ ~p.orphan) =>
          \E x \in Lookup(entries', p.gen, p.req.url) : x.resp = p.resp
  /\ \A e \in Slots :
       (/\ StaticEvent(e)
        /\ ev[e].req.url.v = ASSET_VERSION(ev[e].ver)
        /\ ev[e].t2.pc = "match" /\ ev'[e].t2.pc # "match"
        /\ InStore(e)) =>
          /\ ev'[e].t2.pc = "done"
          /\ ev'[e].t2.net = 0
          /\ ev'[e].t2.res.via = "cache"

Mismatched(e) ==
  /\ StaticEvent(e)
  /\ ev[e].req.url.v # Null
  /\ ev[e].req.url.v # ASSET_VERSION(ev[e].ver)

\* C2: a static request whose ?v= is present and differs from ASSET_VERSION
\* never reads the store (no cache.match) and never writes it; its handler
\* makes exactly one network fetch; a fetch that resolves is returned as it
\* is, a fetch that rejects gives the 504 response with an empty body, and
\* no stored body is ever returned; no key of another version is stored in
\* the active generation
C2_MismatchBypassesStore ==
  /\ \A e \in Slots :
       Mismatched(e) =>
         LET t == ev[e].t2 IN
           /\ t.reads = 0 /\ t.puts = 0 /\ ~t.hit
           /\ t.res.via # "cache"
           /\ t.pc \in {"open", "mmFetch", "done"}
           /\ t.pc = "done" =>
                /\ t.net = 1 /\ t.out = "resolved"
                /\ t.failed => t.res = Unavailable
                /\ ~t.failed => t.res.via = "network"
  /\ \A x \in entries :
       x.gen = STATIC_CACHE(activeVer) =>
         x.key.v \in {Null, ASSET_VERSION(activeVer)}
  /\ \A p \in putq : p.req.url.v \in {Null, ASSET_VERSION(activeVer)}

\* C2: a mismatched request whose fetch failed got the 504 response while
\* the store held the same path under the active version
C2_Witness ==
  \E e \in Slots :
    /\ Mismatched(e) /\ ev[e].t2.pc = "done" /\ ev[e].t2.failed
    /\ ev[e].t2.res = Unavailable
    /\ Lookup(entries, STATIC_CACHE(ev[e].ver),
              Url(ev[e].req.url.path, ASSET_VERSION(ev[e].ver))) # {}

\* C4: no stored entry, and no put on its way, was written for a request
\* classified as document or as api, and the handlers of such requests start
\* no put
C4_NoDocumentOrApiStored ==
  /\ \A x \in entries : ~IsDoc(x.req) /\ ~IsApi(x.req)
  /\ \A p \in putq : ~IsDoc(p.req) /\ ~IsApi(p.req)
  /\ \A e \in Slots :
       (ev[e].st # "idle" /\ (IsDoc(ev[e].req) \/ IsApi(ev[e].req))) =>
          ev[e].t1.puts = 0 /\ ev[e].t2.puts = 0

\* C4: a document request to a static path was answered by the network and
\* is not in the store, which holds entries of static requests
C4_Witness ==
  \E e \in Slots :
    /\ ev[e].st = "done" /\ IsDoc(ev[e].req) /\ IsStatic(ev[e].req)
    /\ ev[e].t2.res = NetResp("ok")
    /\ ~InStore(e)
    /\ \E x \in entries : x.req \in Requests

\* the handler of line 187 runs for the event in slot e
ApiEvent(e) ==
  ev[e].st # "idle" /\ ~IsDoc(ev[e].req) /\ IsApi(ev[e].req)

C8_NeverRejects ==
  \A e \in Slots :
    ev[e].t1.out # "rejected" /\ ev[e].t2.out # "rejected"

\* a static GET without ?v=
Unversioned(e) == StaticEvent(e) /\ ev[e].req.url.v = Null

NormalDocument(e) ==
  ev[e].st # "idle" /\ IsDoc(ev[e].req) /\ ~IsDiagPath(ev[e].req)

\* the shell the fallback of line 175 looks for
ShellInStore(e) ==
  Lookup(entries, STATIC_CACHE(ev[e].ver), Url(UiPath, Null)) # {}

\* what a document handler did: the network first, the store only after the
\* network attempt was rejected, never a rejected promise; after a rejected
\* fetch the stored shell when there is one, else an offline or error page
NetworkFirst(e, t) ==
  /\ t.net <= 1
  /\ (t.reads > 0 \/ t.cache # "none") => t.net = 1 /\ t.failed
  /\ t.out # "rejected"
  /\ t.pc = "done" =>
       /\ t.net = 1
       /\ t.out = "resolved"
       /\ ~t.failed => t.res.via = "network"
       /\ t.failed =>
            IF ShellInStore(e) THEN t.res.via = "cache"
            ELSE t.res \in {OfflineResponse} \cup {ErrorPage(m) : m \in ErrMessages}

Missed(e) ==
  /\ StaticEvent(e) /\ VersionMatches(ev[e].req, ev[e].ver)
  /\ ev[e].t2.pc = "fetch" /\ ev[e].t2.reads = 1 /\ ~ev[e].t2.hit

\* C16: the entry is persisted before the response of a miss is returned: a
\* handler never misses a key whose put was started by the handler that ran
\* in its slot before it (which had finished, and so had delivered its
\* response, when this event was dispatched)
C16_PersistedBeforeReturn ==
  \A e \in Slots :
    Missed(e) =>
      ~\E p \in putq : /\ p.by = e /\ ~p.orphan
                        /\ p.gen = STATIC_CACHE(ev[e].ver)
                        /\ p.req = ev[e].req

\* C19: the 504 response of a version-mismatched static request whose fetch
\* failed is given by no other failure path of the worker
C19_UnavailableIsDistinct ==
  \A e \in Slots :
    \A t \in {ev[e].t1, ev[e].t2} :
      (/\ ev[e].st # "idle" /\ t.pc = "done" /\ t.failed
       /\ t.res.via = "worker" /\ t.res.status = Unavailable.status)
        => Mismatched(e)

\* a request to /static/* or /favicon* that is no document and no GET
NonGetStatic(e) ==
  /\ ev[e].st # "idle" /\ ~IsDoc(ev[e].req)
  /\ ev[e].req.method # "GET"
  /\ \/ StartsWith(ev[e].req.url.path, <<"/", "static", "/">>)
     \/ StartsWith(ev[e].req.url.path, <<"/", "favicon">>)

\* C22: a request to /static/* or /favicon* that is not a document and
\* whose method is not GET is not handled as static, whatever its ?v= is:
\* no listener reads or writes the store for it, it goes to the network,
\* and nothing is stored or being stored for such a request
C22_NonGetNotStatic ==
  /\ \A e \in Slots :
       NonGetStatic(e) =>
         /\ ev[e].t2.pc \in {"netFetch", "netRetry", "done"}
         /\ \A t \in {ev[e].t1, ev[e].t2} :
              /\ t.reads = 0 /\ t.puts = 0 /\ ~t.hit
              /\ t.cache = "none" /\ t.res.via # "cache"
              /\ t.pc = "done" => t.net >= 1
  /\ \A x \in entries : x.req.method = "GET"
  /\ \A p \in putq : p.req.method = "GET"

\* C22: a POST to /static/app.js?v=5 answered by the network while the
\* store holds the GET of the same URL
C22_Witness ==
  \E e \in Slots :
    /\ NonGetStatic(e) /\ ev[e].st = "done"
    /\ ev[e].req.url = Url(AppJsPath, "5")
    /\ ev[e].t2.res = NetResp("ok")
    /\ InStore(e)

\* Response.ok
IsOk(resp) == resp.status >= 200 /\ resp.status <= 299

\* C23, in every state: every stored response and every response being
\* stored is ok, and a version-matching miss that the network answered
\* with a response that is not ok returned that response and started no put
C23_State ==
  /\ \A x \in entries : IsOk(x.resp)
  /\ \A p \in putq : IsOk(p.resp)
  /\ \A e \in Slots :
       (/\ StaticEvent(e) /\ VersionMatches(ev[e].req, ev[e].ver)
        /\ ev[e].t2.pc = "done" /\ ~ev[e].t2.hit /\ ~ev[e].t2.failed
        /\ ~IsOk(ev[e].t2.res)) =>
          ev[e].t2.puts = 0 /\ ev[e].t2.res.via = "network"

\* C23, step by step: the step that returns a response that is not ok
\* leaves the store and the pending puts as they are, and a handler that
\* looks up a key the store does not hold goes on to the network
C23_Steps ==
  \A e \in Slots :
    /\ (/\ ev[e].t2.pc = "fetch" /\ ev'[e].t2.pc = "done"
        /\ ~IsOk(ev'[e].t2.res)) =>
          UNCHANGED <<entries, putq>>
    /\ (/\ StaticEvent(e) /\ ev[e].t2.pc = "match"
        /\ ev'[e].t2.pc # "match" /\ ~InStore(e)) =>
          ev'[e].t2.pc = "fetch"

\* C23: the fetch handler stores ok responses only: a response that is not
\* ok is returned to the caller and not stored, so that the next identical
\* request goes to the network again
C23_OnlyOkPersisted == [](C23_State) /\ [][C23_Steps]_vars

\* C23: a version-matching miss answered 404 by the network: the 404 was
\* returned and the key is still not in the store
C23_Witness ==
  \E e \in Slots :
    /\ StaticEvent(e) /\ VersionMatches(ev[e].req, ev[e].ver)
    /\ ev[e].t2.pc = "done" /\ ~ev[e].t2.hit
    /\ ev[e].t2.res = NetResp("notok")
    /\ putq = {} /\ ~InStore(e)

\* C24: for every fetch event respondWith is called exactly once: one
\* listener responds and no call is made on an event that was responded to
C24_RespondWithExactlyOnce ==
  \A e \in Slots :
    ev[e].st # "idle" => ev[e].responder # 0 /\ ev[e].threw = {}

\* ---- events racing for one key
\* the entries stored under the key the racers ask for
RaceEntries ==
  Lookup(entries, STATIC_CACHE(activeVer), RaceRequest.url)

\* the next step of the handler in slot e can be taken
CanStep(e) ==
  \/ ENABLED L2Open(e)
  \/ ENABLED L2Match(e)
  \/ \E o \in RaceOutcomes : ENABLED L2Fetch(e, o)

\* no handler runs and no put is pending
Quiescent ==
  /\ putq = {}
  /\ \A e \in Racers : ev[e].st # "run"

\* C17, in every state: no handler's promise is rejected and a finished
\* handler has a response; a handler that has not finished can take its next
\* step whatever the others do; the key is stored at most once; and once
\* all handlers and writes are over, the key is stored when some handler
\* wrote it
C17_State ==
  /\ \A e \in Racers :
       LET t == ev[e].t2 IN
         /\ t.out # "rejected"
         /\ t.pc = "done" => t.out = "resolved" /\ t.res # NoResp
         /\ t.pc \in {"open", "match", "fetch"} => CanStep(e)
  /\ Cardinality(RaceEntries) <= 1
  /\ (Quiescent /\ \E e \in Racers : ev[e].t2.puts > 0) =>
        Cardinality(RaceEntries) = 1

\* C17, step by step: the stored entry changes only when a put settles,
\* and a put that settles leaves its own response as the only entry
C17_LastWriteWins ==
  /\ entries' # entries => \E p \in putq : p \notin putq'
  /\ \A p \in putq :
       (p \notin putq' /\ p.gen \in cacheNames) =>
          Lookup(entries', p.gen, p.req.url) =
            {[gen |-> p.gen, key |-> p.req.url, req |-> p.req, resp |-> p.resp]}

\* C17: fetch events for the same version-matching static key that are in
\* flight together, on a store that was empty: every handler returns a
\* response, none waits for another, and when all handlers and writes are
\* over the store holds one entry for the key, that of the last write
C17_RacesTolerated == [](C17_State) /\ [][C17_LastWriteWins]_vars

\* C17: both handlers missed, both fetched, they wrote different responses,
\* and the store holds one entry, the response of one of them
C17_Witness ==
  /\ Quiescent
  /\ \A e \in Racers : ev[e].t2.reads = 1 /\ ~ev[e].t2.hit /\ ev[e].t2.puts = 1
  /\ \E e, f \in Racers : ev[e].t2.res # ev[f].t2.res
  /\ \E x \in RaceEntries :
       RaceEntries = {x} /\ \E e \in Racers : x.resp = ev[e].t2.res

\* ---- the pages the worker renders
\* handleHealthOrVersion runs for the event in slot e
DiagEvent(e) == ev[e].st # "idle" /\ L1Branch(ev[e].req) = "diagFetch"

\* some probe of the shell path came back ok
ProbedOk(p) == \E i \in 1..Len(p) : p[i].outcome = "ok"

\* the return links of a page
Links(doc) == { i \in 1..Len(doc) : doc[i].f = "href" }

\* C11: the return link of a diagnostic page is resolved by HEAD /ui first;
\* GET /ui is probed only after the HEAD probe threw or was not ok, and then
\* always; the link is /ui iff a probe was ok and / otherwise; the
\* resolution never rejects and the page carries exactly that link
C11_ReturnHrefProbing ==
  \A e \in Slots :
    DiagEvent(e) =>
      LET t == ev[e].t1
          p == t.probes
      IN /\ Len(p) <= 2
         /\ Len(p) >= 1 => p[1].method = "HEAD"
         /\ Len(p) = 2 => p[2].method = "GET" /\ p[1].outcome # "ok"
         /\ t.pc \in {"diagFetch", "head"} => p = <<>>
         /\ t.pc = "get" => Len(p) = 1
         /\ t.out # "rejected"
         /\ t.pc = "done" =>
              /\ Len(p) >= 1
              /\ p[1].outcome # "ok" => Len(p) = 2
              /\ t.out = "resolved"
              /\ t.res.href = IF ProbedOk(p) THEN UiPath ELSE RootPath
              /\ \E i \in Links(t.res.doc) :
                   /\ Links(t.res.doc) = {i}
                   /\ t.res.doc[i].s = t.res.href

\* C11: a page whose link is /ui because the GET probe was ok after the HEAD
\* probe threw
C11_Witness ==
  \E e \in Slots :
    /\ DiagEvent(e) /\ ev[e].t1.pc = "done"
    /\ ev[e].t1.probes = <<[method |-> "HEAD", outcome |-> "throw"],
                           [method |-> "GET", outcome |-> "ok"]>>
    /\ ev[e].t1.res.href = UiPath

\* the five entities
Entities == { Entity(c) : c \in Special }

\* s holds none of < > " ' and every & in it begins an entity
Escaped(s) ==
  \A i \in 1..Len(s) :
    /\ s[i] \notin {"<", ">", "\"", "'"}
    /\ s[i] = "&" =>
         \E ent \in Entities :
           /\ i + Len(ent) - 1 <= Len(s)
           /\ SubSeq(s, i, i + Len(ent) - 1) = ent

\* the pages the listeners answered the event in slot e with
PagesOf(e) ==
  { t.res : t \in { x \in {ev[e].t1, ev[e].t2} : x.pc = "done" /\ x.res.doc # <<>> } }

\* C12: every text interpolated into a page the worker rendered (status,
\* latency, path, upstream body, error message, title, return link) holds
\* none of < > " ' and no & that does not begin one of the five entities
C12_InterpolatedTextEscaped ==
  \A e \in Slots :
    \A page \in PagesOf(e) :
      \A i \in 1..Len(page.doc) :
        page.doc[i].k = "text" => Escaped(page.doc[i].s)

\* C12: a page rendered from an upstream body that holds a <script> tag
C12_Witness ==
  \E e \in Slots :
    /\ DiagEvent(e) /\ ev[e].t1.pc = "done"
    /\ ev[e].t1.up.text = <<"<", "script", ">">>
    /\ \E i \in 1..Len(ev[e].t1.res.doc) :
         ev[e].t1.res.doc[i] =
           Text("body", <<"&", "l", "t", ";", "script", "&", "g", "t", ";">>)

\* a failure answer the user sees as a page: made by the worker for a
\* document request whose fetch failed
FailurePage(e, t) ==
  /\ ev[e].st # "idle" /\ IsDoc(ev[e].req)
  /\ t.pc = "done" /\ t.failed /\ t.res.via = "worker"

\* C13: every failure page the worker makes (the network-error page, the
\* offline response, the diagnostic page after a failed upstream fetch)
\* holds a return link
C13_FailurePagesHaveReturnLink ==
  \A e \in Slots :
    \A t \in {ev[e].t1, ev[e].t2} :
      FailurePage(e, t) => Links(t.res.doc) # {}

\* two documents that differ in the latency field at most
SameButLatency(d1, d2) ==
  /\ Len(d1) = Len(d2)
  /\ \A i \in 1..Len(d1) :
       d1[i] = d2[i] \/ (d1[i].f = "time" /\ d2[i].f = "time")

\* C15, the page: the page of a finished rendering is the one any other
\* rendering of the same path, upstream status, upstream body and probe
\* result gives, whatever its latency, but for the latency field
C15_SamePage ==
  \A e \in Slots :
    (DiagEvent(e) /\ ev[e].t1.pc = "done") =>
      LET t == ev[e].t1 IN
        \A ms \in Latencies :
          LET other == DiagPage(ev[e].req.url.path, t.up.status, ms,
                                Pretty(t.up.text), t.res.href)
          IN /\ other.status = t.res.status
             /\ SameButLatency(other.doc, t.res.doc)

\* C15, the store: no step of the first fetch listener changes CacheStorage
C15_StoreUntouched ==
  (\E e \in Slots : ev'[e].t1 # ev[e].t1) =>
     UNCHANGED <<cacheNames, entries, putq>>

HandledAsDiagnostic(e) ==
  LET t == ev[e].t1 IN
    /\ t.pc \in {"diagFetch", "head", "get", "done"}
    /\ t.pc # "diagFetch" => t.net >= 1
    /\ t.pc = "done" =>
         /\ t.res.body = "diag-page" /\ t.res.status = 200
         /\ Text("path", escapeHtml(ev[e].req.url.path)) \in
              { t.res.doc[i] : i \in 1..Len(t.res.doc) }

\* C20 as claimed: a request to /health or /version is handled as
\* diagnostic whatever the document signals are
C20_DiagnosticRegardless ==
  \A e \in Slots :
    (ev[e].st # "idle" /\ IsDiagPath(ev[e].req)) => HandledAsDiagnostic(e)

\* C20 amended: a request to /health or /version that carries at least one
\* document signal (navigate mode, document destination, text/html in
\* Accept) is handled as diagnostic whichever signal it is; without any
\* document signal it is fetched network-only and answered unwrapped
C20_DiagnosticForDocuments ==
  \A e \in Slots :
    (ev[e].st # "idle" /\ IsDiagPath(ev[e].req)) =>
      IF IsDoc(ev[e].req) THEN HandledAsDiagnostic(e)
      ELSE /\ ev[e].t1.pc \in {"net", "done"}
           /\ ev[e].t1.pc = "done" =>
                ev[e].t1.net = 1 /\ ev[e].t1.res.doc = <<>>

\* C20: /health asked for with text/html in Accept only (no navigation, no
\* document destination) and answered with the diagnostic page
C20_Witness ==
  \E e \in Slots :
    /\ ev[e].st # "idle" /\ IsDiagPath(ev[e].req)
    /\ ev[e].req.mode = "cors" /\ ev[e].req.destination = ""
    /\ ev[e].t1.pc = "done" /\ ev[e].t1.res.body = "diag-page"

\* where a page shows its part f
Part(doc, f) == (CHOOSE i \in 1..Len(doc) : doc[i].f = f)

\* C21: a diagnostic request always gets a status-200 HTML page and its
\* handler never rejects; after a rejected upstream fetch the page shows
\* status 0 and the error message; a body that is not JSON is shown as it
\* is up to 20000 characters, and beyond that its first 20000 characters
\* followed by the truncation marker; a body that is JSON is shown as
\* JSON.stringify prints it and is never cut
C21_DiagnosticPageNeverFails ==
  \A e \in Slots :
    DiagEvent(e) =>
      LET t == ev[e].t1
          text == t.up.text
          shown == t.res.doc[Part(t.res.doc, "body")].s
      IN /\ t.out # "rejected"
         /\ t.pc = "done" =>
              /\ t.out = "resolved"
              /\ t.res.status = 200 /\ t.res.doc # <<>>
              /\ (t.failed /\ t.up.status = 0) =>
                   /\ t.res.doc[Part(t.res.doc, "status")].s = <<"0">>
                   /\ text \in ErrMessages
                   /\ shown = escapeHtml(text)
              /\ IsJson(text) =>
                   /\ shown = escapeHtml(JsonPretty(text))
                   /\ \A i \in 1..Len(shown) : shown[i] # TruncationMarker[2]
              /\ (~IsJson(text) /\ Length(text) <= TruncateAt) =>
                   shown = escapeHtml(text)
              /\ (~IsJson(text) /\ Length(text) > TruncateAt) =>
                   /\ Length(Slice(text, TruncateAt)) = TruncateAt
                   /\ shown = escapeHtml(Slice(text, TruncateAt) \o TruncationMarker)

\* C21: a page whose upstream body of 20001 characters, not JSON, is shown
\* cut after the 20000th character, with the marker
C21_Witness ==
  \E e \in Slots :
    /\ DiagEvent(e) /\ ev[e].t1.pc = "done"
    /\ ev[e].t1.up.text = <<"a*19999", "<", ">">>
    /\ ev[e].t1.res.doc[Part(ev[e].t1.res.doc, "body")].s =
         <<"a*19999", "&", "l", "t", ";", "\n", "...[truncated]...">>

\* ---- install and activation
\* both promises given to waitUntil by the activate listeners are settled
ActivationOver ==
  life.phase \in {"activating", "activated"} /\ a1.pc = "done" /\ a2.pc = "done"

\* no call of the platform failed during this activation
NoFault == a1.failed = {} /\ a2.failed = {}

\* C3: after an activation (taken where no platform call failed and all
\* deletions have settled) exactly one generation exists, the instance's own
\* STATIC_CACHE
C3_OneGenerationAfterActivation ==
  (ActivationOver /\ NoFault /\ a1.pend = {} /\ a2.pend = {}) =>
     cacheNames = {STATIC_CACHE(life.ver)}

\* C14: once activation is complete after an install whose precache
\* succeeded, every URL of the manifest is stored in the generation of the
\* active instance
C14_PrecacheResidentAfterActivation ==
  (life.phase = "activated" /\ life.fails = {}) =>
     \A u \in PRECACHE_URLS(life.ver) :
       Lookup(entries, STATIC_CACHE(life.ver), u) # {}

\* C18: with fetch handlers in flight while a new instance activates, once
\* the activation is complete (no platform call failed, every deletion
\* settled) and every handler and put is over, no cache generation but
\* that of the active instance exists
C18_NoForeignGenerationAfterActivation ==
  (/\ life.phase = "activated" /\ NoFault
   /\ a1.pend = {} /\ a2.pend = {}
   /\ putq = {}
   /\ \A e \in Slots : ev[e].st # "run") =>
     cacheNames \subseteq {STATIC_CACHE(activeVer)}

\* C5: when the fetch of exactly one manifest URL fails, install still
\* succeeds and the other manifest URLs are stored in the new generation
C5_PrecacheBestEffort ==
  (life.pc = "settled" /\ Cardinality(life.fails) = 1) =>
     /\ life.phase # "redundant"
     /\ \A u \in PRECACHE_URLS(life.ver) \ life.fails :
          Lookup(entries, STATIC_CACHE(life.ver), u) # {}

\* C6: whatever fails during activation, each side effect is still
\* performed: clients.claim() is called, navigation preload is enabled when
\* the registration has it, the deletions are started when an enumeration
\* succeeded and found caches; a claim that succeeds leaves the clients
\* with this instance
C6_ActivationEffectsIsolated ==
  ActivationOver =>
    /\ "claim" \in a1.tried \cup a2.tried
    /\ life.supportsPreload => "preload" \in a1.tried
    /\ ("keys" \notin a1.failed /\ a1.targets # {}) => "delete" \in a1.tried
    /\ ("keys" \notin a2.failed /\ a2.targets # {}) => "delete" \in a2.tried
    /\ ("claim" \in a1.tried /\ "claim" \notin a1.failed) => claimedBy = life.ver

\* C6: clients claimed although an enumeration, a deletion and the preload
\* failed
C6_Witness ==
  /\ ActivationOver
  /\ "keys" \in a2.failed /\ "delete" \in a1.failed /\ "preload" \in a1.failed
  /\ claimedBy = life.ver

\* ------------------------------------ the self-unregistering worker, part_002
\* the window clients of the origin
Windows == {"w1", "w2"}

\* part_002, the three steps of lines 26-56, in the order of the code
OffSteps == <<"cache", "unregister", "claim">>

\* client.navigate(url) as the map callbacks of lines 49-52 and 74 see it: the
\* promise resolves, the promise rejects, the call throws, or the client has
\* no navigate method
NavOutcomes == {"ok", "reject", "throw", "none"}

\* data.type of a message (line 65)
MessageTypes == {"FORCE_UNREGISTER", "PING"}

\* the task goes on to the call that begins a step
Enter(t, step) == [t EXCEPT !.pc = step, !.steps = Append(@, step)]

\* the async function returns
Return(t) == [t EXCEPT !.pc = "done", !.out = "resolved"]

\* lines 17-20: install calls skipWaiting() and waits for nothing
OffInstall ==
  /\ off.phase = "none"
  /\ off' = [off EXCEPT !.phase = "installed"]
  /\ UNCHANGED <<cacheNames, entries, putq, ev, activeVer, life, a1, a2,
                 claimedBy, preloadOn>>

\* lines 22-28: the activate event; the async function runs to its first
\* await, caches.keys()
OffActivate ==
  /\ off.phase = "installed"
  /\ off' = [off EXCEPT !.phase = "activating",
                        !.act = [Enter(OffTask, "cache") EXCEPT !.pc = "keys"]]
  /\ UNCHANGED <<cacheNames, entries, putq, ev, activeVer, life, a1, a2,
                 claimedBy, preloadOn>>

\* lines 63-68: a message; only FORCE_UNREGISTER starts the async function.
\* One run at a time: the next run starts when nothing of the last is left
OffMessage(type) ==
  /\ off.phase \in {"activating", "activated"}
  /\ off.msg.pc \in {"idle", "done"}
  /\ off.msg.pend = {} /\ off.msg.navs = {}
  /\ off' = IF type = "FORCE_UNREGISTER"
            THEN [off EXCEPT !.seen = type,
                     !.msg = [Enter(OffTask, "cache") EXCEPT !.pc = "keys"]]
            ELSE [off EXCEPT !.seen = type]
  /\ UNCHANGED <<cacheNames, entries, putq, ev, activeVer, life, a1, a2,
                 claimedBy, preloadOn>>

\* lines 27-34 (and 67-69): caches.keys() settles inside try; on success every
\* key's caches.delete(k) is called at once, a rejection is caught and the
\* task goes on to unregister
OffKeysUncaught(t, ok) ==
  IF ok
  THEN IF cacheNames = {} THEN Enter(t, "unregister")
       ELSE [t EXCEPT !.pc = "delete", !.pend = cacheNames]
  ELSE [t EXCEPT !.failed = @ \cup {"cache"}, !.pc = "done",
                 !.out = "rejected"]

OffKeys(t, ok) ==
  IF ok
  THEN IF cacheNames = {} THEN Enter(t, "unregister")
       ELSE [t EXCEPT !.pc = "delete", !.pend = cacheNames]
  ELSE Enter([t EXCEPT !.failed = @ \cup {"cache"}], "unregister")

OffKeysSettle(T, ok) ==
  /\ off[T].pc = "keys"
  /\ off' = [off EXCEPT ![T] = OffKeys(off[T], ok)]
  /\ UNCHANGED <<cacheNames, entries, putq, ev, activeVer, life, a1, a2,
                 claimedBy, preloadOn>>

\* lines 30 and 32-34 (and 68-69): Promise.all over the deletions, inside
\* try: the first rejection ends the wait, the other deletions go on
OffDeleted(t, k, ok) ==
  LET b == [t EXCEPT !.pend = @ \ {k},
                     !.failed = IF ok THEN @ ELSE @ \cup {"cache"}]
  IN IF t.pc # "delete" THEN b
     ELSE IF ~ok \/ b.pend = {} THEN Enter(b, "unregister")
     ELSE b

OffDeleteSettle(T, k, ok) ==
  /\ k \in off[T].pend
  /\ Deleted(k, ok)
  /\ off' = [off EXCEPT ![T] = OffDeleted(off[T], k, ok)]
  /\ UNCHANGED <<activeVer, life, a1, a2, claimedBy, preloadOn>>

\* lines 37-42 (and 70): self.registration.unregister() inside try
OffUnregister(T, ok) ==
  /\ off[T].pc = "unregister"
  /\ off' = [off EXCEPT
               !.registered = IF ok THEN FALSE ELSE @,
               ![T] = Enter([off[T] EXCEPT
                               !.failed = IF ok THEN @
                                          ELSE @ \cup {"unregister"}],
                            "claim")]
  /\ UNCHANGED <<cacheNames, entries, putq, ev, activeVer, life, a1, a2,
                 claimedBy, preloadOn>>

\* lines 46 and 54-56 (and 72, 75): self.clients.claim() inside try; a
\* rejection skips the rest of the step
OffClaim(T, ok) ==
  /\ off[T].pc = "claim"
  /\ off' = [off EXCEPT
               !.controlled = IF ok THEN Windows ELSE @,
               ![T] = IF ok THEN [off[T] EXCEPT !.pc = "matchAll"]
                      ELSE Return([off[T] EXCEPT
                                     !.failed = @ \cup {"claim"}])]
  /\ UNCHANGED <<cacheNames, entries, putq, ev, activeVer, life, a1, a2,
                 claimedBy, preloadOn>>

\* lines 49-52: cs.map in the activate listener; a navigate that throws is
\* caught in the callback, so every client is visited.  `o` is what
\* navigate does for each client; the result is the navigations started
Mapped(cs, o) == { <<c, o[c]>> : c \in { d \in cs : o[d] \in {"ok", "reject"} } }

\* line 74: cs.map in the message listener; no try in the callback, so a
\* navigate that throws ends the map: only clients before it were visited
MappedUntilThrow(cs, o, before) ==
  IF \E c \in cs : o[c] = "throw"
  THEN { n \in Mapped(cs, o) : n[1] \in before }
  ELSE Mapped(cs, o)

\* the task after matchAll resolved and cs.map ran: it waits in Promise.all
\* while navigations are pending; a throw out of the map is caught (line 75)
AfterMap(t, navs, threw) ==
  LET b == [t EXCEPT !.navs = navs]
  IN IF threw THEN Return([b EXCEPT !.failed = @ \cup {"claim"}])
     ELSE IF navs = {} THEN Return(b)
     ELSE [b EXCEPT !.pc = "navigate"]

\* lines 47-52 (and 73-74): matchAll({type: "window", includeUncontrolled:
\* true}) settles; on success the map runs at once
OffMatchAll(T, ok, cs, o, before) ==
  /\ off[T].pc = "matchAll"
  /\ off' = [off EXCEPT
               ![T] = IF ~ok
                      THEN Return([off[T] EXCEPT !.failed = @ \cup {"claim"}])
                      ELSE IF T = "act"
                      THEN AfterMap(off[T], Mapped(cs, o), FALSE)
                      ELSE AfterMap(off[T], MappedUntilThrow(cs, o, before),
                                    \E c \in cs : o[c] = "throw")]
  /\ UNCHANGED <<cacheNames, entries, putq, ev, activeVer, life, a1, a2,
                 claimedBy, preloadOn>>

\* lines 49-56 (and 74-75): a navigation settles; Promise.all ends at the
\* first rejection (caught) or when all resolved
OffNavigated(t, n) ==
  LET b == [t EXCEPT !.navs = @ \ {n},
                     !.failed = IF n[2] = "ok" THEN @ ELSE @ \cup {"claim"}]
  IN IF t.pc # "navigate" THEN b
     ELSE IF n[2] # "ok" \/ b.navs = {} THEN Return(b)
     ELSE b

OffNavSettle(T, n) ==
  /\ n \in off[T].navs
  /\ off' = [off EXCEPT
               !.reloaded = IF n[2] = "ok" THEN @ \cup {n[1]} ELSE @,
               ![T] = OffNavigated(off[T], n)]
  /\ UNCHANGED <<cacheNames, entries, putq, ev, activeVer, life, a1, a2,
                 claimedBy, preloadOn>>

\* lines 23 and 58-59: the promise given to waitUntil is settled: activated
OffActDone ==
  /\ off.phase = "activating" /\ off.act.pc = "done"
  /\ off' = [off EXCEPT !.phase = "activated"]
  /\ UNCHANGED <<cacheNames, entries, putq, ev, activeVer, life, a1, a2,
                 claimedBy, preloadOn>>

\* part_002 replaces the script of a registration: caches of the earlier
\* deployments may exist, with what they precached
InitOff ==
  /\ LifeInit
  /\ \/ cacheNames = {}
     \/ cacheNames = OldGenerations

\* the steps of the task T
OffStep(T) ==
  \/ \E ok \in BOOLEAN : OffKeysSettle(T, ok)
  \/ \E k \in off[T].pend, ok \in BOOLEAN : OffDeleteSettle(T, k, ok)
  \/ \E ok \in BOOLEAN : OffUnregister(T, ok)
  \/ \E ok \in BOOLEAN : OffClaim(T, ok)
  \/ \E ok \in BOOLEAN, cs \in SUBSET Windows :
       \E o \in [cs -> NavOutcomes], before \in SUBSET cs :
         OffMatchAll(T, ok, cs, o, before)
  \/ \E n \in off[T].navs : OffNavSettle(T, n)

NextOff ==
  \/ OffInstall
  \/ OffActivate
  \/ \E type \in MessageTypes : OffMessage(type)
  \/ OffStep("act")
  \/ OffStep("msg")
  \/ OffActDone

\* every promise the activation awaits settles, and its continuation runs
SpecOff == InitOff /\ [][NextOff]_vars /\ WF_vars(OffStep("act"))

\* s is an initial part of t
IsPrefix(s, t) == Len(s) <= Len(t) /\ s = SubSeq(t, 1, Len(s))

\* C25, in every state: the activation task attempts the steps in the order
\* cache, unregister, claim; it is never rejected, and when it has returned
\* it has attempted all three, whichever of them failed; once it is past a
\* cache step that did not fail, no cache exists
C25_State ==
  /\ IsPrefix(off.act.steps, OffSteps)
  /\ off.act.out # "rejected"
  /\ off.act.failed \subseteq { off.act.steps[i] : i \in 1..Len(off.act.steps) }
  /\ off.act.pc = "done" =>
       off.act.out = "resolved" /\ off.act.steps = OffSteps
  /\ (/\ off.act.pc \notin {"idle", "keys", "delete"}
      /\ "cache" \notin off.act.failed) => cacheNames = {}

\* C25: activation of the self-unregistering worker runs its three steps in
\* order (delete every cache, unregister, claim and reload every window),
\* each fault-isolated: whatever steps fail, the later ones are attempted
\* and the activation task completes; when the cache step did not fail, no
\* cache exists after activation
C25_ActivationFaultIsolated ==
  [](C25_State) /\ ((off.phase = "activating") ~> (off.act.pc = "done"))

\* C25: activation completed although the three steps all failed, caches
\* left behind
C25_Witness ==
  /\ off.phase = "activated"
  /\ off.act.out = "resolved"
  /\ off.act.steps = OffSteps
  /\ off.act.failed = {"cache", "unregister", "claim"}
  /\ cacheNames # {}

====
